---- MODULE Spec2Model ----
(***************************************************************************)
(* Document-analysis agent: the on-disk document memory                    *)
(* (src/document_memory.py) and the five tools built on it                 *)
(* (src/document_agent.py).                                                *)
(*                                                                         *)
(* Text is a sequence of one-character strings, so that the file round     *)
(* trip, the tag stripping and the reply parsers are computed on           *)
(* characters as the code computes them.  The platform is POSIX            *)
(* (os.linesep = "\n").                                                    *)
(***************************************************************************)
EXTENDS Integers, Sequences, FiniteSets, TLC

VARIABLES
    files,           \* the content files of the storage directory, by path
    index_file,      \* index.json on disk
    document_index,  \* DocumentMemory.document_index["documents"], in insertion order
    ret,             \* what the last call returned (or raised)
    stored,          \* history: URLs for which a store_document has returned
    fetched,         \* history: URLs for which a fetch_document stored a response
    faults,          \* history: storage faults so far (failed writes, deleted files)
    model_reply,     \* parsing harness: what the model endpoint answers
    peer_index       \* document_index of a second DocumentMemory over the same directory

vars == <<files, index_file, document_index, ret, stored, fetched, faults, model_reply,
          peer_index>>

store_vars == <<files, index_file, document_index>>

-----------------------------------------------------------------------------
(* Bounds *)

MaxLen == 1      \* tokens in a stored content / an HTTP body
MaxTime == 2     \* distinct readings of datetime.now()
MaxTok == 4      \* tokens in an enumerated model reply
MaxFaults == 1   \* storage faults in one behaviour

-----------------------------------------------------------------------------
(* Text helpers *)

SeqsUpTo(S, n) == UNION {[1..k -> S] : k \in 0..n}

RECURSIVE Flatten(_)
Flatten(ss) == IF ss = <<>> THEN <<>> ELSE Head(ss) \o Flatten(Tail(ss))

Texts(tokens, n) == {Flatten(ts) : ts \in SeqsUpTo(tokens, n)}

StartsWith(s, p) == Len(s) >= Len(p) /\ SubSeq(s, 1, Len(p)) = p

EndsWith(s, p) == Len(s) >= Len(p) /\ SubSeq(s, Len(s) - Len(p) + 1, Len(s)) = p

URLs == {"u1", "u2"}

ContentChars == {<<"a">>, <<"\r">>}

Contents == Texts(ContentChars, MaxLen)

BodyTokens == {<<"a">>, <<"\r">>, <<"<", "b", ">">>}

Bodies == Texts(BodyTokens, MaxLen)

Times == 1..MaxTime

-----------------------------------------------------------------------------
(* Text-mode file I/O: open(path, 'w').write(s) and open(path, 'r').read() *)

\* write with newline=None: "\n" becomes os.linesep, which is "\n" here
WriteText(s) == s

\* read with newline=None (universal newlines): "\r\n" and a lone "\r" are
\* both delivered as "\n"
RECURSIVE ReadText(_)
ReadText(s) ==
    IF s = <<>> THEN <<>>
    ELSE IF Head(s) = "\r"
         THEN IF Len(s) >= 2 /\ s[2] = "\n"
              THEN <<"\n">> \o ReadText(SubSeq(s, 3, Len(s)))
              ELSE <<"\n">> \o ReadText(Tail(s))
         ELSE <<Head(s)>> \o ReadText(Tail(s))

NoFile == [exists |-> FALSE, data |-> <<>>]

File(data) == [exists |-> TRUE, data |-> data]

-----------------------------------------------------------------------------
(* DocumentMemory *)

\* hashlib.md5(url).hexdigest(): a fixed digest per URL; the two URLs of the
\* model have different digests
generate_doc_id(url) == IF url = "u1" THEN "d41d" ELSE "9e10"

DocIds == {generate_doc_id(u) : u \in URLs} \cup {"ffff"}

\* os.path.join(storage_dir, f"{doc_id}.txt")
doc_path(doc_id) == <<"./document_memory", doc_id, ".txt">>

Paths == {doc_path(d) : d \in DocIds}

\* the dict document_index["documents"] as its items in insertion order
DictHas(d, k) == \E i \in 1..Len(d) : d[i].id = k

DictGet(d, k) == d[CHOOSE i \in 1..Len(d) : d[i].id = k]

\* an index kept as a list, appended to on every store
DictSetAppend(d, k, v) == Append(d, v)

DictSet(d, k, v) ==
    IF DictHas(d, k)
    THEN [i \in 1..Len(d) |-> IF d[i].id = k THEN v ELSE d[i]]
    ELSE Append(d, v)

NoMeta == [given |-> FALSE, map |-> {}]

Meta(m) == [given |-> TRUE, map |-> m]

MetaArgs == {NoMeta, Meta({<<"tag", 1>>})}

\* metadata or {}
MetaOrEmpty(metadata) == IF metadata.given /\ metadata.map # {} THEN metadata.map ELSE {}

IndexEntry(url, doc_id, metadata) ==
    [id |-> doc_id, url |-> url, path |-> doc_path(doc_id),
     metadata |-> MetaOrEmpty(metadata)]

NotFound == [found |-> FALSE, id |-> "", url |-> "", content |-> <<>>, metadata |-> {}]

get_document(doc_id) ==
    IF ~DictHas(document_index, doc_id) THEN NotFound
    ELSE LET doc_info == DictGet(document_index, doc_id) IN
         IF ~files[doc_info.path].exists THEN NotFound
         ELSE [found |-> TRUE, id |-> doc_id, url |-> doc_info.url,
               content |-> ReadText(files[doc_info.path].data),
               metadata |-> doc_info.metadata]

get_document_by_url(url) == get_document(generate_doc_id(url))

\* a listing that opens every content file and drops the entries it cannot read
list_documents_reading ==
    SelectSeq([i \in 1..Len(document_index) |->
                  [id |-> document_index[i].id, url |-> document_index[i].url,
                   metadata |-> document_index[i].metadata]],
              LAMBDA e : files[doc_path(e.id)].exists)

list_documents ==
    [i \in 1..Len(document_index) |->
        [id |-> document_index[i].id, url |-> document_index[i].url,
         metadata |-> document_index[i].metadata]]

IndexOk(docs) == [state |-> "ok", documents |-> docs]

IndexAbsent == [state |-> "absent", documents |-> <<>>]

IndexCorrupt == [state |-> "corrupt", documents |-> <<>>]

\* json.dump(self.document_index, f, indent=2): the object under "documents",
\* one member per item of the dict, in the dict's order.  A path is a str and
\* the metadata a dict of str keys and JSON values, which JSON text carries
\* as they are.
json_dump(docs) ==
    [i \in 1..Len(docs) |->
        [key |-> docs[i].id,
         value |-> [url |-> docs[i].url, path |-> docs[i].path,
                    metadata |-> docs[i].metadata]]]

\* json.load(f): the dict of the members; a key met again replaces the value
\* of the item it made and keeps the item's place
json_load(members) ==
    LET first(i) == \A j \in 1..(i - 1) : members[j].key # members[i].key
        last(i) == CHOOSE j \in i..Len(members) :
                       /\ members[j].key = members[i].key
                       /\ \A n \in (j + 1)..Len(members) : members[n].key # members[i].key
        item(i) == [id |-> members[i].key, url |-> members[last(i)].value.url,
                    path |-> members[last(i)].value.path,
                    metadata |-> members[last(i)].value.metadata]
        kept == SelectSeq([i \in 1..Len(members) |-> [first |-> first(i), item |-> item(i)]],
                          LAMBDA e : e.first)
    IN  [i \in 1..Len(kept) |-> kept[i].item]

\* an index file that every save appends the saved items to
save_index_appended(docs, io) ==
    IF io = "index_open" THEN index_file
    ELSE IF io = "index_write" THEN IndexCorrupt
         ELSE IndexOk(index_file.documents \o json_dump(docs))

\* an index file that a save merges the saved items into
save_index_merged(docs, io) ==
    IF io = "index_open" THEN index_file
    ELSE IF io = "index_write" THEN IndexCorrupt
         ELSE IndexOk(json_dump(docs) \o
                      SelectSeq(index_file.documents,
                                LAMBDA m : \A i \in 1..Len(docs) : docs[i].id # m.key))

\* _save_index: open(index_file, 'w') truncates the file, json.dump writes
\* the whole index
save_index(docs, io) ==
    IF io = "index_open" THEN index_file
    ELSE IF io = "index_write" THEN IndexCorrupt
         ELSE IndexOk(json_dump(docs))

\* _load_index on a file that is absent or holds a JSON document
load_index ==
    IF index_file.state = "ok" THEN json_load(index_file.documents) ELSE <<>>

\* The outcomes of the two writes of store_document.  A failing open() leaves
\* the file as it was; a write failing after open(path, 'w') leaves a
\* truncated file holding a proper prefix of the data.
StoreOutcomes == {"ok", "content_open", "content_write", "index_open", "index_write"}

ContentFail(io) == io \in {"content_open", "content_write"}

IndexFail(io) == io \in {"index_open", "index_write"}

\* a store that updates and saves the index before it writes the content
StoredIndexFirst(url, content, metadata, io, k) ==
    LET doc_id == generate_doc_id(url)
        path == doc_path(doc_id)
        entry == IndexEntry(url, doc_id, metadata)
        new_index == DictSet(document_index, doc_id, entry)
    IN  [files |->
            IF IndexFail(io) \/ io = "content_open" THEN files
            ELSE IF io = "content_write"
                 THEN [files EXCEPT ![path] = File(SubSeq(WriteText(content), 1, k))]
                 ELSE [files EXCEPT ![path] = File(WriteText(content))],
         document_index |-> new_index,
         index_file |->
            IF io = "index_open" THEN index_file
            ELSE IF io = "index_write" THEN IndexCorrupt
                 ELSE IndexOk(json_dump(new_index)),
         raised |-> io # "ok",
         id |-> doc_id]

\* the effect of store_document on the three store variables, and whether it
\* raised; k is the number of characters a failing content write got out
Stored(url, content, metadata, io, k) ==
    LET doc_id == generate_doc_id(url)
        path == doc_path(doc_id)
        entry == IndexEntry(url, doc_id, metadata)
        new_index == DictSet(document_index, doc_id, entry)
    IN  [files |->
            IF io = "content_open" THEN files
            ELSE IF io = "content_write"
                 THEN [files EXCEPT ![path] = File(SubSeq(WriteText(content), 1, k))]
                 ELSE [files EXCEPT ![path] = File(WriteText(content))],
         document_index |->
            IF ContentFail(io) THEN document_index ELSE new_index,
         index_file |->
            IF ContentFail(io) THEN index_file ELSE save_index(new_index, io),
         raised |-> io # "ok",
         id |-> doc_id]

PrefixLens(content, io) ==
    IF io = "content_write" THEN 0..(Len(content) - 1) ELSE {0}

Fault(io) ==
    /\ io # "ok" => faults < MaxFaults
    /\ faults' = IF io = "ok" THEN faults ELSE faults + 1

\* a call of DocumentMemory.store_document by a user of the class; ios are
\* the outcomes the storage writes may have
store_document(url, content, metadata, ios) ==
    \E io \in ios : \E k \in PrefixLens(content, io) :
        LET s == Stored(url, content, metadata, io, k) IN
        /\ Fault(io)
        /\ files' = s.files
        /\ document_index' = s.document_index
        /\ index_file' = s.index_file
        /\ ret' = [op |-> "store_document", url |-> url, content |-> content,
                   metadata |-> metadata, raised |-> s.raised, exc |-> io, id |-> s.id]
        /\ stored' = IF s.raised THEN stored ELSE stored \cup {url}
        /\ UNCHANGED <<fetched, model_reply, peer_index>>

\* DocumentMemory(): a later session constructs the instance anew over the
\* storage directory.  json.load raises on an index file a failed save has
\* truncated: no instance is made then, and the one in use stays.
new_session ==
    /\ document_index' = IF index_file.state = "corrupt" THEN document_index
                          ELSE load_index
    /\ ret' = [op |-> "DocumentMemory", raised |-> index_file.state = "corrupt"]
    /\ UNCHANGED <<files, index_file, stored, fetched, faults, model_reply, peer_index>>

\* DocumentMemory() by a second caller: its own copy of the index, loaded
\* from an index file that is absent or holds a JSON document
peer_init ==
    /\ index_file.state # "corrupt"
    /\ peer_index' = load_index
    /\ ret' = [op |-> "peer.DocumentMemory", raised |-> FALSE]
    /\ UNCHANGED <<store_vars, stored, fetched, faults, model_reply>>

\* store_document called on the second instance, its writes succeeding:
\* the same code on the same files, with the second instance's document_index
peer_store_document(url, content, metadata) ==
    LET doc_id == generate_doc_id(url)
        new_index == DictSet(peer_index, doc_id, IndexEntry(url, doc_id, metadata))
    IN  /\ files' = [files EXCEPT ![doc_path(doc_id)] = File(WriteText(content))]
        /\ peer_index' = new_index
        /\ index_file' = save_index(new_index, "ok")
        /\ ret' = [op |-> "peer.store_document", url |-> url, raised |-> FALSE,
                   id |-> doc_id]
        /\ UNCHANGED <<document_index, stored, fetched, faults, model_reply>>

-----------------------------------------------------------------------------
(* The network: requests.get(url) and response.raise_for_status() *)

Statuses == {200, 304, 404}

NetError == [kind |-> "error", status |-> 0]

\* what requests.get does: it raises, or returns a response with a status
NetOutcomes == {NetError} \cup [kind : {"response"}, status : Statuses]

\* a fetch that never looks at the status
raise_for_status_skipped(status) == FALSE

\* Response.raise_for_status raises HTTPError for 4xx and 5xx only
raise_for_status(status) == status >= 400 /\ status < 600

\* re.sub(r"<[^>]+>", "", text): a "<", one or more characters other than
\* ">", and the next ">" are deleted; the scan resumes after the match
FirstGt(s, i) ==
    IF \E j \in i..Len(s) : s[j] = ">"
    THEN CHOOSE j \in i..Len(s) : s[j] = ">" /\ \A m \in i..(j - 1) : s[m] # ">"
    ELSE 0

RECURSIVE StripFrom(_, _)
StripFrom(s, i) ==
    IF i > Len(s) THEN <<>>
    ELSE IF s[i] = "<" /\ FirstGt(s, i + 1) >= i + 2
         THEN StripFrom(s, FirstGt(s, i + 1) + 1)
         ELSE <<s[i]>> \o StripFrom(s, i + 1)

StripTags(text) == StripFrom(text, 1)

ErrFetchPrefix ==
    <<"E", "r", "r", "o", "r", " ", "f", "e", "t", "c", "h", "i", "n", "g", " ",
      "d", "o", "c", "u", "m", "e", "n", "t", ":", " ">>

\* str(e) of the exception fetch_document caught
ExcText(kind) ==
    IF kind = "network" THEN <<"C", "o", "n", "n", "e", "c", "t", "i", "o", "n">>
    ELSE IF kind = "status" THEN <<"H", "T", "T", "P">>
    ELSE <<"O", "S">>

FetchedAt(t) == Meta({<<"fetched_at", t>>})

FetchRet(url, content, hit, http, net, exc) ==
    [op |-> "fetch_document", url |-> url, raised |-> FALSE, content |-> content,
     hit |-> hit, http |-> http, net |-> net.kind, status |-> net.status, exc |-> exc]

NoNet == [kind |-> "none", status |-> 0]

\* a cache test that takes a document with empty content for a miss
CacheHitNonEmpty(cached_doc) == cached_doc.found /\ cached_doc.content # <<>>

\* if cached_doc: a returned document is a non-empty dict, None is not
CacheHit(cached_doc) == cached_doc.found

fetch_document(url, ios) ==
    LET cached_doc == get_document_by_url(url) IN
    IF CacheHit(cached_doc)
    THEN /\ ret' = FetchRet(url, cached_doc.content, TRUE, 0, NoNet, "none")
         /\ UNCHANGED <<store_vars, stored, fetched, faults, model_reply, peer_index>>
    ELSE \E net \in NetOutcomes :
         IF net.kind = "error"
         THEN /\ ret' = FetchRet(url, ErrFetchPrefix \o ExcText("network"),
                                 FALSE, 1, net, "network")
              /\ UNCHANGED <<store_vars, stored, fetched, faults, model_reply, peer_index>>
         ELSE IF raise_for_status(net.status)
         THEN /\ ret' = FetchRet(url, ErrFetchPrefix \o ExcText("status"),
                                 FALSE, 1, net, "status")
              /\ UNCHANGED <<store_vars, stored, fetched, faults, model_reply, peer_index>>
         ELSE \E text \in Bodies, t \in Times, io \in ios :
              LET content == StripTags(text) IN
              \E k \in PrefixLens(content, io) :
                 LET s == Stored(url, content, FetchedAt(t), io, k) IN
                 /\ Fault(io)
                 /\ files' = s.files
                 /\ document_index' = s.document_index
                 /\ index_file' = s.index_file
                 /\ stored' = IF s.raised THEN stored ELSE stored \cup {url}
                 /\ fetched' = IF s.raised THEN fetched ELSE fetched \cup {url}
                 /\ UNCHANGED <<model_reply, peer_index>>
                 /\ ret' = IF s.raised
                           THEN FetchRet(url, ErrFetchPrefix \o ExcText("storage"),
                                         FALSE, 1, net, io)
                           ELSE FetchRet(url, content, FALSE, 1, net, "none")

\* the list_documents tool
tool_list_documents ==
    /\ ret' = [op |-> "list_documents", raised |-> FALSE, documents |-> list_documents]
    /\ UNCHANGED <<store_vars, stored, fetched, faults, model_reply, peer_index>>

DocumentNotFound ==
    <<"D", "o", "c", "u", "m", "e", "n", "t", " ", "n", "o", "t", " ", "f", "o", "u", "n", "d">>

\* the get_document tool
tool_get_document(url) ==
    LET doc == get_document_by_url(url) IN
    /\ ret' = IF ~doc.found
              THEN [op |-> "get_document", url |-> url, raised |-> FALSE,
                    content |-> DocumentNotFound, metadata |-> {}]
              ELSE [op |-> "get_document", url |-> url, raised |-> FALSE,
                    content |-> doc.content, metadata |-> doc.metadata]
    /\ UNCHANGED <<store_vars, stored, fetched, faults, model_reply, peer_index>>

\* the environment removes a content file from the storage directory
ExternalDelete(doc_id) ==
    /\ files[doc_path(doc_id)].exists
    /\ faults < MaxFaults
    /\ faults' = faults + 1
    /\ files' = [files EXCEPT ![doc_path(doc_id)] = NoFile]
    /\ ret' = [op |-> "external_delete", raised |-> FALSE, id |-> doc_id]
    /\ UNCHANGED <<index_file, document_index, stored, fetched, model_reply, peer_index>>

-----------------------------------------------------------------------------
(* json.loads on a reply.  A JSON value is a record: t is its type, s its   *)
(* text (a string's characters, a number's digits, an object member's key) *)
(* and items its elements (an array's values, an object's members, a       *)
(* member's value).  Replies hold no backslash, no NaN and no Infinity, and *)
(* their numbers are plain integers.                                       *)

Val(t, s, items) == [t |-> t, s |-> s, items |-> items]

Str(s) == Val("str", s, <<>>)

PyNone == Val("null", <<>>, <<>>)

Failed == [ok |-> FALSE, pos |-> 0, val |-> PyNone]

Parsed(pos, val) == [ok |-> TRUE, pos |-> pos, val |-> val]

Whitespace == {" ", "\t", "\n", "\r"}

Digits == {"0", "1", "2", "3", "4", "5", "6", "7", "8", "9"}

At(s, i) == IF i >= 1 /\ i <= Len(s) THEN s[i] ELSE ""

StartsAt(s, i, p) == i + Len(p) - 1 <= Len(s) /\ SubSeq(s, i, i + Len(p) - 1) = p

\* the first position at or after i that holds no character of set cs
SkipSet(s, i, cs) ==
    IF \E j \in i..Len(s) : s[j] \notin cs
    THEN CHOOSE j \in i..Len(s) : s[j] \notin cs /\ \A m \in i..(j - 1) : s[m] \in cs
    ELSE IF i > Len(s) THEN i ELSE Len(s) + 1

SkipWs(s, i) == SkipSet(s, i, Whitespace)

\* scanstring, strict: up to the next quote, no control character inside
ParseString(s, i) ==
    IF ~\E j \in (i + 1)..Len(s) : s[j] = "\"" THEN Failed
    ELSE LET j == CHOOSE j \in (i + 1)..Len(s) :
                     s[j] = "\"" /\ \A m \in (i + 1)..(j - 1) : s[m] # "\""
         IN  IF \E m \in (i + 1)..(j - 1) : s[m] \in {"\n", "\r", "\t"}
             THEN Failed
             ELSE Parsed(j + 1, Str(SubSeq(s, i + 1, j - 1)))

\* NUMBER_RE: (-?(?:0|[1-9]\d*))(\.\d+)?([eE][-+]?\d+)?
\* the end of the integer part that starts at p (after the sign), 0 if none
IntEnd(s, p) ==
    IF At(s, p) = "0" THEN p + 1
    ELSE IF At(s, p) \in Digits THEN SkipSet(s, p, Digits)
    ELSE 0

FracEnd(s, p) ==
    IF At(s, p) = "." /\ At(s, p + 1) \in Digits THEN SkipSet(s, p + 1, Digits) ELSE p

ExpDigits(s, p) == IF At(s, p + 1) \in {"+", "-"} THEN p + 2 ELSE p + 1

ExpEnd(s, p) ==
    IF At(s, p) \in {"e", "E"} /\ At(s, ExpDigits(s, p)) \in Digits
    THEN SkipSet(s, ExpDigits(s, p), Digits) ELSE p

NumberFrom(s, i, int_end) ==
    IF int_end = 0 THEN Failed
    ELSE Parsed(ExpEnd(s, FracEnd(s, int_end)),
                Val("num", SubSeq(s, i, ExpEnd(s, FracEnd(s, int_end)) - 1), <<>>))

ParseNumber(s, i) == NumberFrom(s, i, IntEnd(s, IF At(s, i) = "-" THEN i + 1 ELSE i))

\* a dict keeps one member per key: a repeated key keeps its first place and
\* takes the last value
ObjSet(members, key, val) ==
    IF \E n \in 1..Len(members) : members[n].s = key
    THEN [n \in 1..Len(members) |->
            IF members[n].s = key THEN Val("pair", key, <<val>>) ELSE members[n]]
    ELSE Append(members, Val("pair", key, <<val>>))

RECURSIVE ParseValue(_, _), ParseElems(_, _, _), ParseMembers(_, _, _)

\* scan_once at position i
ParseValue(s, i) ==
    LET c == At(s, i) IN
    IF c = "\"" THEN ParseString(s, i)
    ELSE IF c = "[" THEN
        LET j == SkipWs(s, i + 1) IN
        IF At(s, j) = "]" THEN Parsed(j + 1, Val("arr", <<>>, <<>>))
        ELSE ParseElems(s, j, <<>>)
    ELSE IF c = "{" THEN
        LET j == SkipWs(s, i + 1) IN
        IF At(s, j) = "}" THEN Parsed(j + 1, Val("obj", <<>>, <<>>))
        ELSE ParseMembers(s, j, <<>>)
    ELSE IF StartsAt(s, i, <<"n", "u", "l", "l">>) THEN Parsed(i + 4, PyNone)
    ELSE IF StartsAt(s, i, <<"t", "r", "u", "e">>)
        THEN Parsed(i + 4, Val("bool", <<"T", "r", "u", "e">>, <<>>))
    ELSE IF StartsAt(s, i, <<"f", "a", "l", "s", "e">>)
        THEN Parsed(i + 5, Val("bool", <<"F", "a", "l", "s", "e">>, <<>>))
    ELSE IF c = "-" \/ c \in Digits THEN ParseNumber(s, i)
    ELSE Failed

\* JSONArray after "[": a value, then "]" or "," and the next value
ParseElems(s, i, acc) ==
    LET v == ParseValue(s, i) IN
    IF ~v.ok THEN Failed
    ELSE LET j == SkipWs(s, v.pos)
             items == Append(acc, v.val)
         IN  IF At(s, j) = "]" THEN Parsed(j + 1, Val("arr", <<>>, items))
             ELSE IF At(s, j) = "," THEN ParseElems(s, SkipWs(s, j + 1), items)
             ELSE Failed

\* JSONObject after "{": a quoted key, ":", a value, then "}" or ","
ParseMembers(s, i, acc) ==
    IF At(s, i) # "\"" THEN Failed
    ELSE LET k == ParseString(s, i) IN
         IF ~k.ok THEN Failed
         ELSE LET c == SkipWs(s, k.pos) IN
              IF At(s, c) # ":" THEN Failed
              ELSE LET v == ParseValue(s, SkipWs(s, c + 1)) IN
                   IF ~v.ok THEN Failed
                   ELSE LET j == SkipWs(s, v.pos)
                            members == ObjSet(acc, k.val.s, v.val)
                        IN  IF At(s, j) = "}" THEN Parsed(j + 1, Val("obj", <<>>, members))
                            ELSE IF At(s, j) = ","
                                 THEN ParseMembers(s, SkipWs(s, j + 1), members)
                                 ELSE Failed

\* json.loads(s): one value between optional whitespace, and nothing else
json_loads(s) ==
    LET v == ParseValue(s, SkipWs(s, 1)) IN
    IF v.ok /\ SkipWs(s, v.pos) = Len(s) + 1 THEN v ELSE Failed

\* re.search(r"\[.*\]", s, re.DOTALL): from the first "[" to the last "]"
\* after it; <<0, 0>> when there is no match
BracketSpan(s) ==
    IF \E i \in 1..Len(s) : s[i] = "[" /\ \E j \in (i + 1)..Len(s) : s[j] = "]"
    THEN LET i == CHOOSE i \in 1..Len(s) : s[i] = "[" /\ \A m \in 1..(i - 1) : s[m] # "["
             j == CHOOSE j \in 1..Len(s) : s[j] = "]" /\ \A m \in (j + 1)..Len(s) : s[m] # "]"
         IN  IF j > i THEN <<i, j>> ELSE <<0, 0>>
    ELSE <<0, 0>>

-----------------------------------------------------------------------------
(* The model endpoint and the two parsing tools *)

\* str.split(sep) for a one-character separator
RECURSIVE Split(_, _)
Split(s, sep) ==
    IF \E i \in 1..Len(s) : s[i] = sep
    THEN LET i == CHOOSE i \in 1..Len(s) : s[i] = sep /\ \A m \in 1..(i - 1) : s[m] # sep
         IN  <<SubSeq(s, 1, i - 1)>> \o Split(SubSeq(s, i + 1, Len(s)), sep)
    ELSE <<s>>

\* str.strip()
Strip(s) ==
    IF \A i \in 1..Len(s) : s[i] \in Whitespace THEN <<>>
    ELSE LET a == CHOOSE i \in 1..Len(s) :
                     s[i] \notin Whitespace /\ \A m \in 1..(i - 1) : s[m] \in Whitespace
             b == CHOOSE i \in 1..Len(s) :
                     s[i] \notin Whitespace /\ \A m \in (i + 1)..Len(s) : s[m] \in Whitespace
         IN  SubSeq(s, a, b)

RECURSIVE MapStr(_)
MapStr(ss) == IF ss = <<>> THEN <<>> ELSE <<Str(Head(ss))>> \o MapStr(Tail(ss))

\* the backquote character, which a TLA+ string cannot hold
Backquote == "backquote"

Fence == <<Backquote, Backquote, Backquote>>

\* the lines of the reply, stripped, that are not empty and neither start
\* nor end with a code fence
RECURSIVE KeptLines(_)
KeptLines(lines) ==
    IF lines = <<>> THEN <<>>
    ELSE LET line == Strip(Head(lines)) IN
         IF line # <<>> /\ ~StartsWith(line, Fence) /\ ~EndsWith(line, Fence)
         THEN <<line>> \o KeptLines(Tail(lines))
         ELSE KeptLines(Tail(lines))

RECURSIVE StripAll(_)
StripAll(ss) == IF ss = <<>> THEN <<>> ELSE <<Strip(Head(ss))>> \o StripAll(Tail(ss))

ErrExtractPrefix ==
    <<"E", "r", "r", "o", "r", " ", "e", "x", "t", "r", "a", "c", "t", "i", "n", "g", " ", "i", "n", "f", "o", "r", "m", "a", "t", "i", "o", "n", ":", " ">>

ErrSearchPrefix ==
    <<"E", "r", "r", "o", "r", " ", "s", "e", "a", "r", "c", "h", "i", "n", "g", " ", "d", "o", "c", "u", "m", "e", "n", "t", ":", " ">>

\* str(e) of the exception a parsing tool caught at its boundary
ToolExcText(kind) ==
    IF kind = "model" THEN <<"C", "o", "n", "n", "e", "c", "t", "i", "o", "n">>
    ELSE <<"T", "y", "p", "e">>

ReplyOf(text) == [kind |-> "reply", text |-> text]

\* the call client.chat.completions.create raised
ModelError == [kind |-> "error", text |-> <<>>]

\* the call returned a message whose content is None
ModelNoContent == [kind |-> "none", text |-> <<>>]

\* a tool whose boundary handler re-raises
ToolResultRaising(list, exc, path) ==
    [raised |-> exc = "boundary", list |-> list, exc |-> exc, path |-> path]

\* what a parsing tool computed: the list it returns, the handler that caught
\* an exception ("none", "json": except json.JSONDecodeError, "bare": the
\* inner except, "boundary": except Exception) and the step that decided
ToolResult(list, exc, path) == [raised |-> FALSE, list |-> list, exc |-> exc, path |-> path]

\* the body of extract_info from the model call on: the information list,
\* the handler that caught an exception, and the parsing step that decided
ExtractInfo(outcome) ==
    IF outcome.kind = "error"
    THEN ToolResult(<<Str(ErrExtractPrefix \o ToolExcText("model"))>>, "boundary", "error")
    ELSE IF outcome.kind = "none"
    THEN ToolResult(<<Str(ErrExtractPrefix \o ToolExcText("type"))>>, "boundary", "error")
    ELSE LET result_text == outcome.text
             match == BracketSpan(result_text)
         IN  IF match # <<0, 0>>
             THEN LET p == json_loads(SubSeq(result_text, match[1], match[2])) IN
                  IF p.ok THEN ToolResult(p.val.items, "none", "span_json")
                  ELSE LET information == KeptLines(Split(result_text, "\n")) IN
                       IF information # <<>>
                       THEN ToolResult(MapStr(information), "json", "lines")
                       ELSE ToolResult(MapStr(StripAll(Split(result_text, ","))),
                                       "json", "commas")
             ELSE LET p == json_loads(result_text) IN
                  IF p.ok /\ p.val.t = "arr"
                  THEN ToolResult(p.val.items, "none", "whole_json")
                  ELSE IF p.ok
                  THEN ToolResult(<<Str(Strip(result_text))>>, "none", "whole_json")
                  ELSE ToolResult(<<Str(Strip(result_text))>>, "bare", "whole_raw")

\* re.findall(r'"([^"]+)"', s) scanning from position i
RECURSIVE QuotedFrom(_, _)
QuotedFrom(s, i) ==
    IF i > Len(s) THEN <<>>
    ELSE IF s[i] = "\"" /\ \E j \in (i + 2)..Len(s) : s[j] = "\"" /\ s[i + 1] # "\""
         THEN LET j == CHOOSE j \in (i + 2)..Len(s) :
                          s[j] = "\"" /\ \A m \in (i + 1)..(j - 1) : s[m] # "\""
              IN  <<SubSeq(s, i + 1, j - 1)>> \o QuotedFrom(s, j + 1)
         ELSE QuotedFrom(s, i + 1)

Quoted(s) == QuotedFrom(s, 1)

TextKey == <<"t", "e", "x", "t">>

Contains(s, p) == \E i \in 1..(Len(s) - Len(p) + 1) : SubSeq(s, i, i + Len(p) - 1) = p

\* "text" in item
HasText(item) ==
    IF item.t = "obj" THEN \E n \in 1..Len(item.items) : item.items[n].s = TextKey
    ELSE IF item.t = "str" THEN Contains(item.s, TextKey)
    ELSE IF item.t = "arr" THEN \E n \in 1..Len(item.items) : item.items[n] = Str(TextKey)
    ELSE FALSE

\* evaluating  "text" in item  or  item["text"]  raises TypeError
TextRaises(item) ==
    IF item.t = "obj" THEN FALSE
    ELSE IF item.t \in {"str", "arr"} THEN HasText(item)
    ELSE TRUE

\* item["text"] of a dict
TextOf(item) ==
    item.items[CHOOSE n \in 1..Len(item.items) : item.items[n].s = TextKey].items[1]

\* [item["text"] for item in parsed if "text" in item]
RECURSIVE Texts_of(_)
Texts_of(items) ==
    IF items = <<>> THEN <<>>
    ELSE IF HasText(Head(items)) THEN <<TextOf(Head(items))>> \o Texts_of(Tail(items))
    ELSE Texts_of(Tail(items))

RECURSIVE Join(_, _)
Join(ss, sep) ==
    IF ss = <<>> THEN <<>>
    ELSE IF Len(ss) = 1 THEN Head(ss)
    ELSE Head(ss) \o sep \o Join(Tail(ss), sep)

\* repr(value) of a parsed JSON value
RECURSIVE PyRepr(_), PyReprAll(_)
PyRepr(v) ==
    IF v.t = "str"
    THEN IF Contains(v.s, <<"'">>) THEN <<"\"">> \o v.s \o <<"\"">>
         ELSE <<"'">> \o v.s \o <<"'">>
    ELSE IF v.t = "null" THEN <<"N", "o", "n", "e">>
    ELSE IF v.t = "arr" THEN <<"[">> \o Join(PyReprAll(v.items), <<",", " ">>) \o <<"]">>
    ELSE IF v.t = "obj" THEN <<"{">> \o Join(PyReprAll(v.items), <<",", " ">>) \o <<"}">>
    ELSE IF v.t = "pair" THEN PyRepr(Str(v.s)) \o <<":", " ">> \o PyRepr(v.items[1])
    ELSE v.s

PyReprAll(vs) == IF vs = <<>> THEN <<>> ELSE <<PyRepr(Head(vs))>> \o PyReprAll(Tail(vs))

\* str(value)
PyStr(v) == IF v.t = "str" THEN v.s ELSE PyRepr(v)

\* a search that extracts the quoted substrings whenever a JSON parse fails,
\* of the span as of the whole reply
SearchDocumentQuotedAlways(outcome) ==
    IF outcome.kind = "error"
    THEN ToolResult(<<Str(ErrSearchPrefix \o ToolExcText("model"))>>, "boundary", "error")
    ELSE IF outcome.kind = "none"
    THEN ToolResult(<<Str(ErrSearchPrefix \o ToolExcText("type"))>>, "boundary", "error")
    ELSE LET result_text == outcome.text
             match == BracketSpan(result_text)
             p == IF match # <<0, 0>>
                  THEN json_loads(SubSeq(result_text, match[1], match[2]))
                  ELSE json_loads(result_text)
         IN  IF p.ok /\ match # <<0, 0>>
             THEN IF \E n \in 1..Len(p.val.items) : TextRaises(p.val.items[n])
                  THEN ToolResult(<<Str(ErrSearchPrefix \o ToolExcText("type"))>>,
                                  "boundary", "error")
                  ELSE ToolResult(Texts_of(p.val.items), "none", "span_json")
             ELSE IF p.ok
             THEN ToolResult(<<Str(PyStr(p.val))>>, "none", "whole_json")
             ELSE IF Quoted(result_text) # <<>>
             THEN ToolResult(MapStr(Quoted(result_text)), "bare", "quoted")
             ELSE ToolResult(<<Str(result_text)>>, "bare", "raw")

\* the body of search_document from the model call on
SearchDocument(outcome) ==
    IF outcome.kind = "error"
    THEN ToolResult(<<Str(ErrSearchPrefix \o ToolExcText("model"))>>, "boundary", "error")
    ELSE IF outcome.kind = "none"
    THEN ToolResult(<<Str(ErrSearchPrefix \o ToolExcText("type"))>>, "boundary", "error")
    ELSE LET result_text == outcome.text
             match == BracketSpan(result_text)
         IN  IF match # <<0, 0>>
             THEN LET p == json_loads(SubSeq(result_text, match[1], match[2])) IN
                  IF ~p.ok THEN ToolResult(<<Str(result_text)>>, "json", "raw")
                  ELSE IF \E n \in 1..Len(p.val.items) : TextRaises(p.val.items[n])
                  THEN ToolResult(<<Str(ErrSearchPrefix \o ToolExcText("type"))>>,
                                  "boundary", "error")
                  ELSE ToolResult(Texts_of(p.val.items), "none", "span_json")
             ELSE LET p == json_loads(result_text) IN
                  IF p.ok /\ p.val.t # "arr"
                  THEN ToolResult(<<Str(PyStr(p.val))>>, "none", "whole_json")
                  ELSE IF Quoted(result_text) # <<>>
                  THEN ToolResult(MapStr(Quoted(result_text)), "bare", "quoted")
                  ELSE ToolResult(<<Str(result_text)>>, "bare", "raw")

-----------------------------------------------------------------------------
(* The outcomes of the model call *)

ReplyTokens ==
    {<<"[">>, <<"]">>, <<"\"">>, <<"a">>, <<",">>, <<"\n">>, Fence,
     <<"{", "\"", "t", "e", "x", "t", "\"", ":">>, <<"}">>}

SampleReplies ==
    {<<"i", "t", "e", "m", "1", "\n", "i", "t", "e", "m", "2">>,
     <<"[", "\"", "a", "\"", ",", "\"", "b", "\"", "]">>,
     <<"[", "{", "\"", "r", "a", "t", "i", "n", "g", "\"", ":", "9", ",", "\"", "t", "e", "x", "t", "\"", ":", "\"", "P", "1", "\"", "}", ",", "{", "\"", "r", "a", "t", "i", "n", "g", "\"", ":", "4", ",", "\"", "t", "e", "x", "t", "\"", ":", "\"", "P", "2", "\"", "}", "]">>,
     <<"[", "s", "e", "e", " ", "\"", "P", "1", "\"", "]">>,
     <<"[", "\"", "t", "e", "x", "t", "\"", "]">>,
     <<"\"", "a", "\"">>,
     <<"backquote", "backquote", "backquote", "\n", "[", "a", "\n", "backquote", "backquote", "backquote">>}

\* the replies the tools meet in the specifications of the whole program:
\* a JSON array, a span that is no JSON, an array whose item makes the
\* search raise TypeError, a JSON string, two plain lines
ToolReplies ==
    {<<"[", "\"", "a", "\"", "]">>, <<"[", "a", "]">>,
     <<"[", "\"", "t", "e", "x", "t", "\"", "]">>, <<"\"", "a", "\"">>,
     <<"a", "\n", "a">>}

\* every reply of up to MaxTok tokens, and the samples
Replies == Texts(ReplyTokens, MaxTok) \cup SampleReplies \cup ToolReplies

ModelOutcomes == {ModelError, ModelNoContent} \cup {ReplyOf(r) : r \in Replies}

SampleOutcomes == {ModelError, ModelNoContent} \cup {ReplyOf(r) : r \in ToolReplies}

-----------------------------------------------------------------------------
(* The tools extract_info and search_document *)

\* the two tool bodies tabulated over the outcomes of the model call
ExtractInfoOf == [o \in ModelOutcomes |-> ExtractInfo(o)]

SearchDocumentOf == [o \in ModelOutcomes |-> SearchDocument(o)]

extract_info(outcome) ==
    LET r == ExtractInfoOf[outcome] IN
    /\ ret' = [op |-> "extract_info", raised |-> r.raised, outcome |-> outcome,
               information |-> r.list, exc |-> r.exc, path |-> r.path]
    /\ UNCHANGED <<store_vars, stored, fetched, faults, model_reply, peer_index>>

search_document(outcome) ==
    LET r == SearchDocumentOf[outcome] IN
    /\ ret' = [op |-> "search_document", raised |-> r.raised, outcome |-> outcome,
               results |-> r.list, exc |-> r.exc, path |-> r.path]
    /\ UNCHANGED <<store_vars, stored, fetched, faults, model_reply, peer_index>>

-----------------------------------------------------------------------------

Init ==
    /\ files = [p \in Paths |-> NoFile]
    /\ index_file = IndexAbsent
    /\ document_index = <<>>
    /\ ret = [op |-> "init", raised |-> FALSE]
    /\ stored = {}
    /\ fetched = {}
    /\ faults = 0
    /\ peer_index = <<>>
    /\ model_reply = ModelError

\* the program with storage writes that succeed
Next ==
    \/ \E u \in URLs, c \in Contents, m \in MetaArgs : store_document(u, c, m, {"ok"})
    \/ \E u \in URLs : fetch_document(u, {"ok"})
    \/ tool_list_documents
    \/ \E u \in URLs : tool_get_document(u)
    \/ \E o \in SampleOutcomes : extract_info(o)
    \/ \E o \in SampleOutcomes : search_document(o)

Spec == Init /\ [][Next]_vars

\* DocumentMemory and fetch_document with every outcome of the storage writes
NextIO ==
    \/ \E u \in URLs, c \in Contents, m \in MetaArgs : store_document(u, c, m, StoreOutcomes)
    \/ \E u \in URLs : fetch_document(u, StoreOutcomes)
    \/ tool_list_documents
    \/ \E u \in URLs : tool_get_document(u)

SpecIO == Init /\ [][NextIO]_vars

\* the five tools, with every outcome of the storage writes, in a storage
\* directory whose content files the environment may delete
NextEnv ==
    \/ \E u \in URLs : fetch_document(u, StoreOutcomes)
    \/ tool_list_documents
    \/ \E u \in URLs : tool_get_document(u)
    \/ \E d \in DocIds : ExternalDelete(d)
    \/ \E o \in SampleOutcomes : extract_info(o)
    \/ \E o \in SampleOutcomes : search_document(o)

SpecEnv == Init /\ [][NextEnv]_vars

\* the two parsing tools on one outcome of the model call, drawn from every
\* reply of the bound
InitParse ==
    /\ files = [p \in Paths |-> NoFile]
    /\ index_file = IndexAbsent
    /\ document_index = <<>>
    /\ ret = [op |-> "init", raised |-> FALSE]
    /\ stored = {}
    /\ fetched = {}
    /\ faults = 0
    /\ peer_index = <<>>
    /\ model_reply \in ModelOutcomes

NextParse ==
    \/ extract_info(model_reply)
    \/ search_document(model_reply)

SpecParse == InitParse /\ [][NextParse]_vars

\* DocumentMemory over several sessions, with every outcome of the storage
\* writes
NextSession ==
    \/ \E u \in URLs, c \in Contents, m \in MetaArgs : store_document(u, c, m, StoreOutcomes)
    \/ \E u \in URLs : fetch_document(u, StoreOutcomes)
    \/ tool_list_documents
    \/ \E u \in URLs : tool_get_document(u)
    \/ new_session

SpecSession == Init /\ [][NextSession]_vars

\* two DocumentMemory instances over one storage directory, their calls
\* interleaved in any order
NextShared ==
    \/ \E u \in URLs, c \in Contents, m \in MetaArgs : store_document(u, c, m, {"ok"})
    \/ \E u \in URLs, c \in Contents, m \in MetaArgs : peer_store_document(u, c, m)
    \/ peer_init
    \/ tool_list_documents

SpecShared == Init /\ [][NextShared]_vars

-----------------------------------------------------------------------------
(* Claims *)

IsStore(r) == r.op = "store_document"

IsFetch(r) == r.op = "fetch_document"

\* C1 (as stated): right after store_document(u, content, metadata) has
\* returned, get_document_by_url(u) returns exactly that content and that
\* metadata ({} when none was given).
C1_StoreThenGetExact ==
    (IsStore(ret) /\ ~ret.raised) =>
        LET doc == get_document_by_url(ret.url) IN
        /\ doc.found
        /\ doc.content = ret.content
        /\ doc.metadata = (IF ret.metadata.given THEN ret.metadata.map ELSE {})

IndexHas(url) == DictHas(document_index, generate_doc_id(url))

FetchFailed(r) ==
    /\ ~r.raised
    /\ StartsWith(r.content, ErrFetchPrefix)
    /\ r.http = 1

\* C3 (as stated): a fetch_document that misses the cache and whose GET
\* raises or answers with a status outside 200..299 returns the error
\* string after one request and leaves the store unchanged.
C3_Non2xxIsAnError ==
    [][(IsFetch(ret') /\ ~ret'.hit
          /\ (ret'.net = "error" \/ ret'.status < 200 \/ ret'.status > 299)) =>
          (FetchFailed(ret') /\ UNCHANGED store_vars)]_vars

\* C3 (amended): a fetch_document that misses the cache and whose GET raises
\* or answers with a 4xx or 5xx status does not raise, returns a content
\* starting "Error fetching document", makes exactly one request and leaves
\* the content files, the index and the index file unchanged.
C3_FailedFetchStoresNothing ==
    [][(IsFetch(ret') /\ ~ret'.hit
          /\ (ret'.net = "error" \/ (ret'.status >= 400 /\ ret'.status < 600))) =>
          (FetchFailed(ret') /\ UNCHANGED store_vars)]_vars

C3_Witness ==
    /\ IsFetch(ret) /\ ~ret.hit /\ ret.net = "response" /\ ret.status = 404
    /\ FetchFailed(ret)
    /\ ~IndexHas(ret.url)
    /\ ~files[doc_path(generate_doc_id(ret.url))].exists

ErrorList(list, prefix) == Len(list) = 1 /\ StartsWith(list[1].s, prefix)

ListedUrls == {list_documents[i].url : i \in 1..Len(list_documents)}

\* C5: the store is keyed by URL: the listing has exactly one entry for each
\* URL ever stored, and a store of u (by store_document or by fetch_document)
\* leaves what get_document_by_url returns for every other URL unchanged.
C5_KeyedByUrl ==
    /\ [](Len(list_documents) = Cardinality(stored) /\ ListedUrls = stored)
    /\ [][(IsStore(ret') \/ IsFetch(ret')) =>
             \A v \in URLs \ {ret'.url} :
                get_document_by_url(v)' = get_document_by_url(v)]_vars

C5_Witness ==
    /\ IsStore(ret) /\ stored = URLs /\ Len(list_documents) = 2
    /\ \A u \in URLs : get_document_by_url(u).found
    /\ get_document_by_url("u1").content = get_document_by_url("u2").content
    /\ get_document_by_url("u1").metadata # get_document_by_url("u2").metadata

Orphans == {i \in 1..Len(document_index) : ~files[document_index[i].path].exists}

\* C6: an index entry whose content file is gone is still listed, with its
\* url and metadata, by a list_documents that does not raise, while
\* get_document on its id, get_document_by_url on its url and the
\* get_document tool find no document.
C6_ListingReadsNoContent ==
    /\ ret.op = "list_documents" =>
          /\ ~ret.raised
          /\ Len(ret.documents) = Len(document_index)
          /\ \A i \in 1..Len(document_index) :
                /\ ret.documents[i].id = document_index[i].id
                /\ ret.documents[i].url = document_index[i].url
                /\ ret.documents[i].metadata = document_index[i].metadata
    /\ \A i \in Orphans :
          /\ get_document(document_index[i].id) = NotFound
          /\ get_document_by_url(document_index[i].url) = NotFound
    /\ (ret.op = "get_document" /\ \E i \in Orphans : document_index[i].url = ret.url) =>
          (~ret.raised /\ ret.content = DocumentNotFound /\ ret.metadata = {})

C6_Witness ==
    /\ ret.op = "list_documents" /\ Orphans # {}
    /\ \E i \in Orphans : ret.documents[i].url = document_index[i].url

\* C7 (as stated): the get_document tool returns "Document not found" and {}
\* for a URL the store cannot retrieve, and for a URL just stored it returns
\* the content and the metadata that were stored.
C7_GetReturnsWhatWasStored ==
    [][(ret'.op = "get_document") =>
          /\ ~ret'.raised
          /\ ~get_document_by_url(ret'.url).found =>
                (ret'.content = DocumentNotFound /\ ret'.metadata = {})
          /\ (IsStore(ret) /\ ~ret.raised /\ ret.url = ret'.url) =>
                /\ ret'.content = ret.content
                /\ ret'.metadata = (IF ret.metadata.given THEN ret.metadata.map ELSE {})]_vars

IndexedFilesExist(docs) ==
    \A i \in 1..Len(docs) :
        /\ docs[i].path = doc_path(docs[i].id)
        /\ files[docs[i].path].exists

\* C10: without external deletion, every id in the index (in memory and on
\* disk) has its content file at the recorded path <id>.txt; a store whose
\* content write fails changes neither index, and a store whose index save
\* fails has already written the content and added the entry.
C10_IndexedContentExists ==
    /\ [](IndexedFilesExist(document_index) /\ IndexedFilesExist(load_index))
    /\ [][(IsStore(ret') \/ (IsFetch(ret') /\ ret'.http = 1 /\ ~ret'.hit)) =>
             /\ ContentFail(ret'.exc) =>
                   (document_index' = document_index /\ index_file' = index_file)
             /\ IndexFail(ret'.exc) =>
                   /\ DictHas(document_index', generate_doc_id(ret'.url))
                   /\ files'[doc_path(generate_doc_id(ret'.url))].exists]_vars

C10_Witness ==
    /\ IsStore(ret) /\ ret.exc = "content_write"
    /\ files[doc_path(generate_doc_id(ret.url))].exists
    /\ ~IndexHas(ret.url)
    /\ Len(document_index) = 1

IsReply(r, op) == r.op = op /\ r.outcome.kind = "reply"

HasSpan(text) == BracketSpan(text) # <<0, 0>>

SpanOf(text) == SubSeq(text, BracketSpan(text)[1], BracketSpan(text)[2])

\* the JSON parse the tool attempts on the reply fails: of the [...] span
\* when there is one, of the whole reply otherwise
JsonFails(text) ==
    IF HasSpan(text) THEN ~json_loads(SpanOf(text)).ok ELSE ~json_loads(text).ok

LineSplit(text) ==
    IF KeptLines(Split(text, "\n")) # <<>>
    THEN MapStr(KeptLines(Split(text, "\n")))
    ELSE MapStr(StripAll(Split(text, ",")))

\* C8 (as stated): whenever the reply is not parseable as JSON, with or
\* without a [...] span, extract_info returns its non-empty lines without
\* the code-fence lines, and the comma split only when there is no such line.
C8_NonJsonIsSplitIntoLines ==
    (IsReply(ret, "extract_info") /\ JsonFails(ret.outcome.text)) =>
        ret.information = LineSplit(ret.outcome.text)

QuotedOrRaw(text) ==
    IF Quoted(text) # <<>> THEN MapStr(Quoted(text)) ELSE <<Str(text)>>

StoreCompleted(r) ==
    \/ IsStore(r) /\ ~r.raised
    \/ IsFetch(r) /\ ~r.hit /\ r.net = "response" /\ r.exc = "none"

Synced == index_file = IndexOk(json_dump(document_index))

\* C11: after every store_document that has returned (called directly or by
\* fetch_document) the index file holds the whole index of the instance, each
\* document once; reads leave it so; and a DocumentMemory constructed then
\* over the directory is constructed without an exception and gives the
\* list_documents and, for every URL, the get_document_by_url of the instance
\* that did the stores.
C11_IndexFileIsIndex ==
    /\ [](StoreCompleted(ret) => Synced)
    /\ [][(Synced /\ ret'.op \in {"list_documents", "get_document"}) => Synced']_vars
    /\ [][(Synced /\ ret'.op = "DocumentMemory") =>
              /\ ~ret'.raised
              /\ document_index' = document_index
              /\ list_documents' = list_documents
              /\ \A u \in URLs : get_document_by_url(u)' = get_document_by_url(u)]_vars

\* a later session has loaded two documents, one of them stored twice, after a
\* save of the index had failed
C11_Witness ==
    /\ ret.op = "DocumentMemory" /\ ~ret.raised
    /\ Len(document_index) = 2 /\ stored = URLs /\ faults = 1
    /\ Synced
    /\ \E i \in 1..2 : document_index[i].metadata # {}
    /\ \A u \in URLs : get_document_by_url(u).found

PeerStored(r) == r.op = "peer.store_document"

\* the index file holds a member for document d
OnDisk(d) ==
    /\ index_file.state = "ok"
    /\ \E i \in 1..Len(index_file.documents) : index_file.documents[i].key = d

\* C12: with two DocumentMemory instances over one directory no store waits
\* for the other instance (each instance's store_document can be called in
\* every state), and every store rewrites the whole index file from the
\* in-memory copy of the instance that stores, whatever the file held and
\* without touching the other instance's copy: afterwards the file holds a
\* document the other instance stored only if the storing instance's copy
\* holds it, so a store by each of the two can leave the file without one of
\* the two documents.
C12_StoreRewritesFromOwnCopy ==
    /\ [](\A u \in URLs, c \in Contents, m \in MetaArgs :
             /\ ENABLED store_document(u, c, m, {"ok"})
             /\ ENABLED peer_store_document(u, c, m))
    /\ [][PeerStored(ret') =>
              /\ index_file' = IndexOk(json_dump(peer_index'))
              /\ document_index' = document_index
              /\ \A d \in DocIds :
                     OnDisk(d)' <=>
                         (d = ret'.id \/ DictHas(peer_index, d))]_vars
    /\ [][(IsStore(ret') /\ ~ret'.raised) =>
              /\ index_file' = IndexOk(json_dump(document_index'))
              /\ peer_index' = peer_index
              /\ \A d \in DocIds :
                     OnDisk(d)' <=>
                         (d = ret'.id \/ DictHas(document_index, d))]_vars

\* the lost update: the first instance has stored u1, the second has then
\* stored u2, and the index file holds u2 alone while u1's content file is
\* on disk and the first instance still lists u1
C12_LostUpdate ==
    /\ PeerStored(ret) /\ ret.url = "u2"
    /\ stored = {"u1"}
    /\ index_file.state = "ok"
    /\ OnDisk(generate_doc_id("u2"))
    /\ ~OnDisk(generate_doc_id("u1"))
    /\ ~DictHas(load_index, generate_doc_id("u1"))
    /\ DictHas(document_index, generate_doc_id("u1"))
    /\ files[doc_path(generate_doc_id("u1"))].exists
    /\ files[doc_path(generate_doc_id("u2"))].exists
====
